---------------------------- MODULE Spec2Model ----------------------------
(***************************************************************************)
(* Model of jsConfigUtil.ts (src/unnamed/part_000) and of the entry script *)
(* src/src/writeJsConfig.ts of aditosoftware/js-devtools.                  *)
(*                                                                         *)
(* JavaScript values are records tagged by t; an object keeps its members  *)
(* as a sequence of [k, v] pairs, so that insertion order is part of the   *)
(* value.  Text (the npm list output, the files) is a sequence of tokens,  *)
(* each token a string; JSON.parse and JSON.stringify convert between the  *)
(* two.                                                                    *)
(***************************************************************************)
EXTENDS Integers, Sequences, FiniteSets, TLC

VARIABLES
    pOutput,    \* text the npm list process wrote to stdout
    doc,        \* the JsConfigJSON object held in memory (mutated in place)
    call,       \* the last function call: its arguments and its result
    runs,       \* number of calls made so far
    template,   \* the file jsconfig.template.json
    jsconfig,   \* the file jsconfig.json
    console,    \* the lines written by console.log
    npm         \* the npm list subprocess started by the entry script

vars == <<pOutput, doc, call, runs, template, jsconfig, console, npm>>

---------------------------------------------------------------------------
(* JavaScript values *)

Undefined == [t |-> "undefined"]
Null == [t |-> "null"]
Bool(b) == [t |-> "bool", b |-> b]
Num(n) == [t |-> "num", n |-> n]
Str(s) == [t |-> "str", s |-> s]
Arr(a) == [t |-> "arr", a |-> a]
Obj(o) == [t |-> "obj", o |-> o]
Member(k, v) == [k |-> k, v |-> v]

IsNullish(v) == v.t \in {"null", "undefined"}

HasKey(o, k) == \E i \in 1..Len(o) : o[i].k = k

IndexOfKey(o, k) == CHOOSE i \in 1..Len(o) : o[i].k = k

\* v[k] for a value that is neither null nor undefined
GetProp(v, k) ==
    IF v.t = "obj" /\ HasKey(v.o, k) THEN v.o[IndexOfKey(v.o, k)].v ELSE Undefined

\* v[k] = x for an object v: an existing key keeps its place, a new key goes last
SetProp(v, k, x) ==
    IF HasKey(v.o, k)
    THEN Obj([v.o EXCEPT ![IndexOfKey(v.o, k)] = Member(k, x)])
    ELSE Obj(Append(v.o, Member(k, x)))

\* the outcome of a call: a returned value, or a thrown error
Return(v) == [err |-> "none", val |-> v]
Throw(e) == [err |-> e, val |-> Undefined]

\* const name = v; F(name): v is evaluated once
With(v, F(_)) == CHOOSE out \in {F(name) : name \in {v}} : TRUE

startsWith(s, p) == Len(s) >= Len(p) /\ SubSeq(s, 1, Len(p)) = p

Range(s) == {s[i] : i \in 1..Len(s)}

---------------------------------------------------------------------------
(* JSON text *)

Digits == <<"0", "1", "2", "3", "4", "5", "6", "7", "8", "9">>

Quote(s) == "\"" \o s \o "\""
IsStrTok(tok) == Len(tok) >= 2 /\ SubSeq(tok, 1, 1) = "\"" /\ SubSeq(tok, Len(tok), Len(tok)) = "\""
Unquote(tok) == SubSeq(tok, 2, Len(tok) - 1)
IsNumTok(tok) == \E d \in 1..Len(Digits) : Digits[d] = tok
NumOfTok(tok) == (CHOOSE d \in 1..Len(Digits) : Digits[d] = tok) - 1
IsWhitespace(tok) == tok = " " \/ (Len(tok) >= 1 /\ SubSeq(tok, 1, 1) = "\n")

RECURSIVE Spaces(_)
Spaces(n) == IF n = 0 THEN "" ELSE " " \o Spaces(n - 1)

Newline(indent, depth) == IF indent = 0 THEN <<>> ELSE <<"\n" \o Spaces(indent * depth)>>

RECURSIVE stringify(_, _, _)
RECURSIVE stringifyElems(_, _, _, _)
RECURSIVE stringifyMembers(_, _, _, _)

\* JSON.stringify(v, null, indent), the text at nesting depth `depth`
stringify(v, indent, depth) ==
    CASE v.t = "null" -> <<"null">>
      [] v.t = "bool" -> <<IF v.b THEN "true" ELSE "false">>
      [] v.t = "num" -> <<Digits[v.n + 1]>>
      [] v.t = "str" -> <<Quote(v.s)>>
      [] v.t = "arr" ->
            IF v.a = <<>> THEN <<"[", "]">>
            ELSE <<"[">> \o stringifyElems(v.a, 1, indent, depth + 1)
                         \o Newline(indent, depth) \o <<"]">>
      [] v.t = "obj" ->
            IF v.o = <<>> THEN <<"{", "}">>
            ELSE <<"{">> \o stringifyMembers(v.o, 1, indent, depth + 1)
                         \o Newline(indent, depth) \o <<"}">>

stringifyElems(a, i, indent, depth) ==
    IF i > Len(a) THEN <<>>
    ELSE (IF i > 1 THEN <<",">> ELSE <<>>)
         \o Newline(indent, depth) \o stringify(a[i], indent, depth)
         \o stringifyElems(a, i + 1, indent, depth)

stringifyMembers(o, i, indent, depth) ==
    IF i > Len(o) THEN <<>>
    ELSE (IF i > 1 THEN <<",">> ELSE <<>>)
         \o Newline(indent, depth) \o <<Quote(o[i].k), ":">>
         \o (IF indent = 0 THEN <<>> ELSE <<" ">>)
         \o stringify(o[i].v, indent, depth)
         \o stringifyMembers(o, i + 1, indent, depth)

JSONstringify(v, indent) == stringify(v, indent, 0)

ParseOk(v, i) == [ok |-> TRUE, v |-> v, i |-> i]
ParseFail == [ok |-> FALSE, v |-> Undefined, i |-> 0]

RECURSIVE parseValue(_, _)
RECURSIVE parseElems(_, _, _)
RECURSIVE parseMembers(_, _, _)

\* the JSON value that starts at token i, and the index after it
parseValue(toks, i) ==
    IF i > Len(toks) THEN ParseFail
    ELSE LET tok == toks[i] IN
         CASE tok = "null" -> ParseOk(Null, i + 1)
           [] tok = "true" -> ParseOk(Bool(TRUE), i + 1)
           [] tok = "false" -> ParseOk(Bool(FALSE), i + 1)
           [] IsNumTok(tok) -> ParseOk(Num(NumOfTok(tok)), i + 1)
           [] IsStrTok(tok) -> ParseOk(Str(Unquote(tok)), i + 1)
           [] tok = "[" ->
                IF i + 1 <= Len(toks) /\ toks[i + 1] = "]"
                THEN ParseOk(Arr(<<>>), i + 2)
                ELSE parseElems(toks, i + 1, <<>>)
           [] tok = "{" ->
                IF i + 1 <= Len(toks) /\ toks[i + 1] = "}"
                THEN ParseOk(Obj(<<>>), i + 2)
                ELSE parseMembers(toks, i + 1, Obj(<<>>))
           [] OTHER -> ParseFail

parseElems(toks, i, acc) ==
    With(parseValue(toks, i), LAMBDA r :
        IF ~r.ok \/ r.i > Len(toks) THEN ParseFail
        ELSE IF toks[r.i] = "," THEN parseElems(toks, r.i + 1, Append(acc, r.v))
        ELSE IF toks[r.i] = "]" THEN ParseOk(Arr(Append(acc, r.v)), r.i + 1)
        ELSE ParseFail)

parseMembers(toks, i, acc) ==
    IF i + 1 > Len(toks) \/ ~IsStrTok(toks[i]) \/ toks[i + 1] # ":" THEN ParseFail
    ELSE With(parseValue(toks, i + 2), LAMBDA r :
        IF ~r.ok \/ r.i > Len(toks) THEN ParseFail
        ELSE With(SetProp(acc, Unquote(toks[i]), r.v), LAMBDA next :
            IF toks[r.i] = "," THEN parseMembers(toks, r.i + 1, next)
            ELSE IF toks[r.i] = "}" THEN ParseOk(next, r.i + 1)
            ELSE ParseFail))

\* JSON.parse(text): the value, or a SyntaxError
JSONparse(text) ==
    With(SelectSeq(text, LAMBDA tok : ~IsWhitespace(tok)), LAMBDA toks :
        With(parseValue(toks, 1), LAMBDA r :
            IF r.ok /\ r.i = Len(toks) + 1 THEN Return(r.v) ELSE Throw("SyntaxError")))

---------------------------------------------------------------------------
(* jsConfigUtil.ts *)

\* the organization scope both filters test for
AditoScope == "@aditosoftware"

\* getDefaultConfigTemplate(): a new object on every call
getDefaultConfigTemplate ==
    Obj(<<Member("compilerOptions", Obj(<<
        Member("module", Str("es6")),
        Member("moduleResolution", Str("node")),
        Member("baseUrl", Str(".")),
        Member("checkJs", Bool(TRUE)),
        Member("noEmit", Bool(TRUE)),
        Member("removeComments", Bool(TRUE)),
        Member("strict", Bool(FALSE)),
        Member("paths", Obj(<<
            Member("*", Arr(<<Str("process/*/process"), Str("node_modules/*/process"),
                              Str("node_modules/@aditosoftware/*/process")>>)),
            Member("@aditosoftware/jdito-types",
                   Arr(<<Str("node_modules/@aditosoftware/jdito-types/index")>>))>>))>>))>>)

RECURSIVE IndexKeys(_)
IndexKeys(n) == IF n = 0 THEN <<>> ELSE Append(IndexKeys(n - 1), ToString(n - 1))

\* Object.keys(v) for a value that is neither null nor undefined
ObjectKeys(v) ==
    CASE v.t = "obj" -> [i \in 1..Len(v.o) |-> v.o[i].k]
      [] v.t = "arr" -> IndexKeys(Len(v.a))
      [] v.t = "str" -> IndexKeys(Len(v.s))
      [] OTHER -> <<>>

\* x ?? {}
OrEmptyObject(x) == IF IsNullish(x) THEN Obj(<<>>) ELSE x

RECURSIVE FlatMapRecursive(_, _, _)
RECURSIVE getAditoDependenciesRecursive(_)
RECURSIVE InterleaveRecursive(_, _, _)

\* each key followed at once by what the recursion finds under it
InterleaveRecursive(dependencies, aditoDependencies, i) ==
    IF i > Len(aditoDependencies) THEN <<>>
    ELSE <<aditoDependencies[i]>>
         \o getAditoDependenciesRecursive(
                OrEmptyObject(GetProp(dependencies, aditoDependencies[i])))
         \o InterleaveRecursive(dependencies, aditoDependencies, i + 1)

\* getAditoDependenciesRecursive as a pre-order traversal
getAditoDependenciesPreOrder(jsonOutput) ==
    LET dependencies == GetProp(jsonOutput, "dependencies")
        aditoDependencies ==
            SelectSeq(ObjectKeys(OrEmptyObject(dependencies)),
                      LAMBDA key : startsWith(key, "@aditosoftware"))
    IN  InterleaveRecursive(dependencies, aditoDependencies, 1)

\* getAditoDependenciesRecursive(jsonOutput) for a jsonOutput that is neither
\* null nor undefined: the keys of this node that carry the scope, then what
\* the recursion finds under each of those keys
getAditoDependenciesRecursive(jsonOutput) ==
    LET dependencies == GetProp(jsonOutput, "dependencies")
        aditoDependencies ==
            SelectSeq(ObjectKeys(OrEmptyObject(dependencies)),
                      LAMBDA key : startsWith(key, AditoScope))
    IN  aditoDependencies \o FlatMapRecursive(dependencies, aditoDependencies, 1)

\* aditoDependencies.flatMap(dependency =>
\*     getAditoDependenciesRecursive(jsonOutput.dependencies?.[dependency] ?? {}))
FlatMapRecursive(dependencies, aditoDependencies, i) ==
    IF i > Len(aditoDependencies) THEN <<>>
    ELSE getAditoDependenciesRecursive(
             OrEmptyObject(GetProp(dependencies, aditoDependencies[i])))
         \o FlatMapRecursive(dependencies, aditoDependencies, i + 1)

RECURSIVE ArrayFromSet(_)
\* Array.from(s): the intermediate Set left out
ArrayFromSetKeepsAll(s) == s

\* Array.from(new Set(s)): each element once, at the place of its first occurrence
ArrayFromSet(s) ==
    IF s = <<>> THEN <<>>
    ELSE With(ArrayFromSet(SubSeq(s, 1, Len(s) - 1)), LAMBDA front :
        IF s[Len(s)] \in Range(front) THEN front ELSE Append(front, s[Len(s)]))

\* parseAditoDependencies with the parse error caught and no dependencies returned
parseAditoDependenciesCaught(output) ==
    With(JSONparse(output), LAMBDA jsonObj :
        IF jsonObj.err # "none" THEN Return(<<>>)
        ELSE IF IsNullish(jsonObj.val) THEN Throw("TypeError")
        ELSE Return(ArrayFromSet(getAditoDependenciesRecursive(jsonObj.val))))

\* parseAditoDependencies(pOutput)
parseAditoDependencies(output) ==
    With(JSONparse(output), LAMBDA jsonObj :
        IF jsonObj.err # "none" THEN jsonObj
        ELSE IF IsNullish(jsonObj.val) THEN Throw("TypeError")
        ELSE Return(ArrayFromSet(getAditoDependenciesRecursive(jsonObj.val))))

RECURSIVE FilterThirdParty(_, _)
RECURSIVE FilterAdito(_, _)
RECURSIVE FilterNotContaining(_, _)

\* String.prototype.includes
includes(s, p) == \E i \in 1..(Len(s) - Len(p) + 1) : SubSeq(s, i, i + Len(p) - 1) = p

\* the filter testing includes in place of startsWith: every entry that has the
\* scope anywhere in it is dropped
FilterNotContaining(pathValues, i) ==
    IF i > Len(pathValues) THEN Return(<<>>)
    ELSE IF pathValues[i].t # "str" THEN Throw("TypeError")
    ELSE With(FilterNotContaining(pathValues, i + 1), LAMBDA rest :
        IF rest.err # "none" THEN rest
        ELSE IF includes(pathValues[i].s, "@aditosoftware") THEN rest
        ELSE Return(<<pathValues[i]>> \o rest.val))

\* the filter with its negation lost: the entries that do start with the scope
FilterAdito(pathValues, i) ==
    IF i > Len(pathValues) THEN Return(<<>>)
    ELSE IF pathValues[i].t # "str" THEN Throw("TypeError")
    ELSE With(FilterAdito(pathValues, i + 1), LAMBDA rest :
        IF rest.err # "none" THEN rest
        ELSE IF ~startsWith(pathValues[i].s, "@aditosoftware") THEN rest
        ELSE Return(<<pathValues[i]>> \o rest.val))

\* pathValues.filter(pValue => !pValue.startsWith('@aditosoftware')), from index i on;
\* an entry that is no string has no startsWith
FilterThirdParty(pathValues, i) ==
    IF i > Len(pathValues) THEN Return(<<>>)
    ELSE IF pathValues[i].t # "str" THEN Throw("TypeError")
    ELSE With(FilterThirdParty(pathValues, i + 1), LAMBDA rest :
        IF rest.err # "none" THEN rest
        ELSE IF startsWith(pathValues[i].s, AditoScope) THEN rest
        ELSE Return(<<pathValues[i]>> \o rest.val))

\* getExistingThirdPartyDependencies(pJsConfigJSON)
getExistingThirdPartyDependencies(pJsConfigJSON) ==
    IF IsNullish(pJsConfigJSON) THEN Throw("TypeError")
    ELSE LET compilerOptions == GetProp(pJsConfigJSON, "compilerOptions")
             paths == IF IsNullish(compilerOptions) THEN Obj(<<>>)
                      ELSE OrEmptyObject(GetProp(compilerOptions, "paths"))
             star == GetProp(paths, "*")
             pathValues == IF IsNullish(star) THEN Arr(<<>>) ELSE star
         IN  IF pathValues.t # "arr" THEN Throw("TypeError")
             ELSE FilterThirdParty(pathValues.a, 1)

\* `node_modules/${pDependency}/process/*/process`
PathExtension(pDependency) == "node_modules/" \o pDependency \o "/process/*/process"

\* getPathExtensionsToSet(pExistingJsConfigJSON, pOutput)
getPathExtensionsToSet(pExistingJsConfigJSON, output) ==
    With(parseAditoDependencies(output), LAMBDA aditoDependencies :
        IF aditoDependencies.err # "none" THEN aditoDependencies
        ELSE With(getExistingThirdPartyDependencies(pExistingJsConfigJSON),
                  LAMBDA pathExtensions :
            IF pathExtensions.err # "none" THEN pathExtensions
            ELSE Return(pathExtensions.val
                        \o [i \in 1..Len(aditoDependencies.val) |->
                               Str(PathExtension(aditoDependencies.val[i]))])))

\* holder[key] = {} in place of holder[key] ??= {}: a value that is there is replaced
AssignEmptyObject(holder, key) ==
    IF IsNullish(holder) THEN Throw("TypeError")
    ELSE IF holder.t # "obj" THEN Throw("TypeError")
    ELSE Return(SetProp(holder, key, Obj(<<>>)))

\* holder[key] ??= {}: the holder afterwards, or a TypeError where holder cannot
\* take the property (null, undefined, or a primitive in strict mode). Arrays are
\* never drawn as holders.
DefaultToEmptyObject(holder, key) ==
    IF IsNullish(holder) THEN Throw("TypeError")
    ELSE IF ~IsNullish(GetProp(holder, key)) THEN Return(holder)
    ELSE IF holder.t # "obj" THEN Throw("TypeError")
    ELSE Return(SetProp(holder, key, Obj(<<>>)))

\* the outcome of a call that changes its argument in place: `obj` is the
\* argument after the call, whether the call returned or threw
Mutated(outcome, obj) == [err |-> outcome.err, val |-> outcome.val, obj |-> obj]

\* the assignment pTemplateJSON.compilerOptions.paths['*'] = pathExtensions, the
\* right-hand side already evaluated
SetWildcardRule(json, pathExtensions) ==
    LET compilerOptions == GetProp(json, "compilerOptions")
        paths == GetProp(compilerOptions, "paths")
    IN  IF pathExtensions.err # "none" THEN Mutated(pathExtensions, json)
        ELSE IF paths.t # "obj" THEN Mutated(Throw("TypeError"), json)
        ELSE With(SetProp(json, "compilerOptions",
                      SetProp(compilerOptions, "paths",
                          SetProp(paths, "*", Arr(pathExtensions.val)))),
                  LAMBDA result : Mutated(Return(result), result))

\* transformTemplate(pTemplateJSON, pOutput)
transformTemplate(pTemplateJSON, output) ==
    With(DefaultToEmptyObject(pTemplateJSON, "compilerOptions"), LAMBDA withOptions :
        IF withOptions.err # "none" THEN Mutated(withOptions, pTemplateJSON)
        ELSE With(DefaultToEmptyObject(GetProp(withOptions.val, "compilerOptions"), "paths"),
                  LAMBDA optionsWithPaths :
            IF optionsWithPaths.err # "none" THEN Mutated(optionsWithPaths, withOptions.val)
            ELSE With(SetProp(withOptions.val, "compilerOptions", optionsWithPaths.val),
                      LAMBDA json :
                SetWildcardRule(json, getPathExtensionsToSet(json, output)))))

\* getJsConfigJSON without the try/catch around the read and the parse
getJsConfigJSONNoCatch(file) ==
    IF file.exists
    THEN IF ~file.readable THEN Throw("Error") ELSE JSONparse(file.text)
    ELSE Return(getDefaultConfigTemplate)

\* getJsConfigJSON with one default document for all calls instead of a new one
\* from getDefaultConfigTemplate() each time: a later call gets the object an
\* earlier transformTemplate has changed in place
getJsConfigJSONSharedDefault(file) ==
    LET default == IF doc = Undefined THEN getDefaultConfigTemplate ELSE doc IN
    IF file.exists
    THEN IF ~file.readable THEN Return(default)
         ELSE With(JSONparse(file.text), LAMBDA json :
                  IF json.err # "none" THEN Return(default) ELSE json)
    ELSE Return(default)

\* getJsConfigJSON(pTemplatePathFn), the file at the path being `file`
getJsConfigJSON(file) ==
    IF file.exists
    THEN IF ~file.readable THEN Return(getDefaultConfigTemplate)
         ELSE With(JSONparse(file.text), LAMBDA json :
                  IF json.err # "none" THEN Return(getDefaultConfigTemplate) ELSE json)
    ELSE Return(getDefaultConfigTemplate)

\* the file state of a path: absent, present but unreadable, or readable text
NoFile == [exists |-> FALSE, readable |-> FALSE, text |-> <<>>]
UnreadableFile == [exists |-> TRUE, readable |-> FALSE, text |-> <<>>]
File(text) == [exists |-> TRUE, readable |-> TRUE, text |-> text]

\* the ExecException | null that exec hands to its callback
ExecException(name, message) == [t |-> "error", name |-> name, message |-> message]

\* "npm list command failed due to " + `${pError.name}: ${pError.message}`
\*     + ".\nError output: " + pStdErr + "\nCannot create jsconfig"
FailureMessage(pError, pStdErr) ==
    "npm list command failed due to " \o pError.name \o ": " \o pError.message
        \o ".\nError output: " \o pStdErr \o "\nCannot create jsconfig"

\* the body of createJsConfigFile with the write guarded by
\* !fs.existsSync('jsconfig.json'): a file that is there is kept
LoadTransformWriteIfAbsent(output, outputFile, lines, steps, templateFile) ==
    With(getJsConfigJSON(templateFile), LAMBDA loaded :
        With(transformTemplate(loaded.val, output), LAMBDA json :
            IF json.err # "none"
            THEN [err |-> json.err, jsconfig |-> outputFile, console |-> lines,
                  steps |-> steps \o <<"getJsConfigJSON", "transformTemplate">>,
                  loaded |-> loaded, document |-> json.obj]
            ELSE IF outputFile.exists
            THEN [err |-> "none", jsconfig |-> outputFile, console |-> lines,
                  steps |-> steps \o <<"getJsConfigJSON", "transformTemplate">>,
                  loaded |-> loaded, document |-> json.obj]
            ELSE [err |-> "none", jsconfig |-> File(JSONstringify(json.val, 4)),
                  console |-> lines,
                  steps |-> steps \o <<"getJsConfigJSON", "transformTemplate",
                                       "fs.writeFileSync">>,
                  loaded |-> loaded, document |-> json.obj]))

\* the body of createJsConfigFile after the test of pError
LoadTransformWrite(output, outputFile, lines, steps, templateFile) ==
    With(getJsConfigJSON(templateFile), LAMBDA loaded :
        IF loaded.err # "none"
        THEN [err |-> loaded.err, jsconfig |-> outputFile, console |-> lines,
              steps |-> steps \o <<"getJsConfigJSON">>, loaded |-> loaded,
              document |-> Undefined]
        ELSE With(transformTemplate(loaded.val, output), LAMBDA json :
            IF json.err # "none"
            THEN [err |-> json.err, jsconfig |-> outputFile, console |-> lines,
                  steps |-> steps \o <<"getJsConfigJSON", "transformTemplate">>,
                  loaded |-> loaded, document |-> json.obj]
            ELSE [err |-> "none", jsconfig |-> File(JSONstringify(json.val, 4)),
                  console |-> lines,
                  steps |-> steps \o <<"getJsConfigJSON", "transformTemplate",
                                       "fs.writeFileSync">>,
                  loaded |-> loaded, document |-> json.obj]))

\* createJsConfigFile with the return after the console.log lost
createJsConfigFileNoReturn(output, pError, pStdErr, templateFile, outputFile, lines) ==
    IF pError # Null
    THEN LoadTransformWrite(output, outputFile,
             Append(lines, FailureMessage(pError, pStdErr)), <<"console.log">>, templateFile)
    ELSE LoadTransformWrite(output, outputFile, lines, <<>>, templateFile)

\* createJsConfigFile(pOutput, pError, pStdErr, pTemplatePathFn): the files and the
\* console after the call, the calls it made in order, the template it loaded, the
\* document transformTemplate worked on as the call leaves it, and the error it
\* threw, if any
createJsConfigFile(output, pError, pStdErr, templateFile, outputFile, lines) ==
    IF pError # Null
    THEN [err |-> "none", jsconfig |-> outputFile,
          console |-> Append(lines, FailureMessage(pError, pStdErr)),
          steps |-> <<"console.log">>, loaded |-> Return(Undefined),
          document |-> Undefined]
    ELSE LoadTransformWrite(output, outputFile, lines, <<>>, templateFile)

---------------------------------------------------------------------------
(* Bounds and inputs *)

\* most dependencies (at any depth) of a dependency tree
MaxNodes == 3
\* most entries of a wildcard rule drawn for a document
MaxPathValues == 2
\* most calls in one behaviour
MaxRuns == 2

Util == "@aditosoftware/util"
Root == "@aditosoftware/root"
Foo == "@aditosoftware/foo"
PackageNames == {Util, Root, Foo, "test"}

\* a node of the npm list -j -l output with the dependencies `members`
Node(members) ==
    IF members = <<>> THEN Obj(<<Member("version", Str("1.0.0"))>>)
    ELSE Obj(<<Member("version", Str("1.0.0")), Member("dependencies", Obj(members))>>)

RECURSIVE ForestsOfSize(_)
\* the dependency mappings with n dependencies in all, keys distinct in each mapping
ForestsOfSize(n) ==
    IF n = 0 THEN {<<>>}
    ELSE UNION {
           { <<Member(c[1], Node(c[2]))>> \o c[3] :
               c \in { d \in PackageNames \X ForestsOfSize(i) \X ForestsOfSize(n - 1 - i) :
                         ~HasKey(d[3], d[1]) } }
           : i \in 0..(n - 1) }

DependencyTrees == UNION { {Node(f) : f \in ForestsOfSize(n)} : n \in 0..MaxNodes }

\* what npm list -j -l prints for a tree
NpmListOutput(tree) == JSONstringify(tree, 2)

TreeOutputs == {NpmListOutput(tree) : tree \in DependencyTrees}

\* outputs that are no dependency tree: not JSON, JSON that is no object, an
\* object without a dependencies node
OtherOutputs ==
    { <<>>, <<"npm ERR! code ELSPROBLEMS">>, <<"{", "\"dependencies\"", ":">>,
      <<"4">>, <<"null">>, <<Quote("text")>>, <<"[", "]">>, <<"{", "}">>,
      JSONstringify(Obj(<<Member("someOtherNode", Obj(<<Member(Util, Arr(<<>>))>>))>>), 0) }

\* the dependency trees the tests of the repository use, and a nested one
SampleTrees ==
    { Node(<<>>),
      Node(<<Member("test", Node(<<>>))>>),
      Node(<<Member("test", Node(<<>>)), Member(Util, Node(<<>>)), Member(Root, Node(<<>>))>>),
      Node(<<Member(Util, Node(<<Member(Root, Node(<<>>))>>))>>),
      Node(<<Member(Root, Node(<<>>))>>) }

SampleTreeOutputs == {NpmListOutput(tree) : tree \in SampleTrees}

SampleOutputs ==
    SampleTreeOutputs
        \cup { <<"npm ERR! code ELSPROBLEMS">>, <<"null">>, <<"4">>, <<"{", "}">> }

\* entries a wildcard rule is drawn from: third-party entries, an entry that
\* starts with the scope, and entries of the form transformTemplate writes
PathPool ==
    { "test", "bar", Util,
      "node_modules/@aditosoftware/util/process/*/process",
      "node_modules/@aditosoftware/root/process/*/process" }

RECURSIVE ListsOfLength(_)
ListsOfLength(n) ==
    IF n = 0 THEN {<<>>}
    ELSE {Append(l, Str(e)) : l \in ListsOfLength(n - 1), e \in PathPool}

WildcardLists == UNION {ListsOfLength(n) : n \in 0..MaxPathValues}

\* a jsconfig with fields next to the wildcard rule
TemplateWith(star) ==
    Obj(<<Member("include", Arr(<<Str("process")>>)),
          Member("compilerOptions", Obj(<<
              Member("target", Str("es6")),
              Member("paths", Obj(<<
                  Member("lib", Arr(<<Str("lib/*")>>)),
                  Member("*", star)>>)),
              Member("checkJs", Bool(TRUE))>>))>>)

\* documents of the type JsConfigJSON
TypedDocuments ==
    { Obj(<<>>),
      Obj(<<Member("compilerOptions", Obj(<<>>))>>),
      Obj(<<Member("compilerOptions", Obj(<<Member("paths", Obj(<<>>))>>))>>),
      Obj(<<Member("compilerOptions", Obj(<<Member("paths", Obj(<<
          Member("*", Arr(<<Str("test"), Str(Util), Str(Foo), Str("bar")>>))>>))>>))>>),
      getDefaultConfigTemplate }
        \cup {TemplateWith(Arr(l)) : l \in WildcardLists}

\* values JSON.parse can return that are no JsConfigJSON
UntypedDocuments ==
    { Null, Num(4),
      Obj(<<Member("compilerOptions", Num(3))>>),
      Obj(<<Member("compilerOptions", Obj(<<Member("paths", Num(3))>>))>>),
      TemplateWith(Num(5)),
      TemplateWith(Arr(<<Num(4)>>)),
      TemplateWith(Null) }

\* states of jsconfig.template.json
TemplateFiles ==
    { NoFile, UnreadableFile, File(<<>>), File(<<"{", "\"compilerOptions\"", ":">>) }
        \cup { File(JSONstringify(d, 4)) :
                 d \in UntypedDocuments \cup
                       { Obj(<<>>), getDefaultConfigTemplate,
                         TemplateWith(Arr(<<Str("test"), Str(Util)>>)) } }

\* what exec reports next to stdout: (error, stderr)
ExecResults ==
    { <<Null, "">>,
      <<ExecException("Error", "Command failed: npm list -j -l"), "npm ERR! missing: test">> }

---------------------------------------------------------------------------
(* parseAditoDependencies applied to one npm list output *)

NoCall == [fn |-> "none"]

InitExtract ==
    /\ pOutput \in TreeOutputs \cup OtherOutputs
    /\ doc = Undefined
    /\ call = NoCall
    /\ runs = 0
    /\ template = NoFile
    /\ jsconfig = NoFile
    /\ console = <<>>
    /\ npm = "idle"

ParseAditoDependencies ==
    /\ call = NoCall
    /\ call' = [fn |-> "parseAditoDependencies", ret |-> parseAditoDependencies(pOutput)]
    /\ runs' = runs + 1
    /\ UNCHANGED <<pOutput, doc, template, jsconfig, console, npm>>

NextExtract == ParseAditoDependencies

SpecExtract == InitExtract /\ [][NextExtract]_vars

---------------------------------------------------------------------------
(* Properties of parseAditoDependencies *)

\* parseAditoDependencies has been applied to the output of a dependency tree
ExtractedFromTree == call.fn = "parseAditoDependencies" /\ pOutput \in TreeOutputs

\* the dependency tree that pOutput is the text of
OutputTree == JSONparse(pOutput).val

RECURSIVE PreOrderKeys(_)
RECURSIVE PreOrderMembers(_, _)
\* every dependency key of the tree under `node`, in pre-order, depth first
PreOrderKeys(node) ==
    LET dependencies == GetProp(node, "dependencies") IN
    IF dependencies.t # "obj" THEN <<>> ELSE PreOrderMembers(dependencies.o, 1)

PreOrderMembers(o, i) ==
    IF i > Len(o) THEN <<>>
    ELSE <<o[i].k>> \o PreOrderKeys(o[i].v) \o PreOrderMembers(o, i + 1)

IsNamespaced(name) == startsWith(name, "@aditosoftware")

NamespacedPreOrder(node) == SelectSeq(PreOrderKeys(node), IsNamespaced)

FirstIndex(s, x) == CHOOSE i \in 1..Len(s) : s[i] = x /\ \A j \in 1..(i - 1) : s[j] # x

\* the elements of s, each at its first occurrence
FirstSeen(s) ==
    LET keep == {i \in 1..Len(s) : \A j \in 1..(i - 1) : s[j] # s[i]}
        Rank(i) == Cardinality({j \in keep : j <= i})
    IN  [n \in 1..Cardinality(keep) |-> s[CHOOSE i \in keep : Rank(i) = n]]

NoDuplicates(s) == \A i, j \in 1..Len(s) : i # j => s[i] # s[j]

\* C1: for every dependency tree, parseAditoDependencies returns every dependency
\* key that starts with '@aditosoftware' at any depth of the tree, also one nested
\* under a dependency whose own key does not carry the scope.
C1_EveryDepth ==
    ExtractedFromTree =>
        /\ call.ret.err = "none"
        /\ Range(NamespacedPreOrder(OutputTree)) \subseteq Range(call.ret.val)

\* C2: every name parseAditoDependencies returns for a dependency tree starts with
\* '@aditosoftware', no name is returned twice, and a tree without a namespaced key
\* gives the empty sequence.
C2_NamespacedOnce ==
    ExtractedFromTree =>
        /\ call.ret.err = "none"
        /\ \A i \in 1..Len(call.ret.val) : IsNamespaced(call.ret.val[i])
        /\ NoDuplicates(call.ret.val)
        /\ (NamespacedPreOrder(OutputTree) = <<>> => call.ret.val = <<>>)

\* a tree in which the traversal meets a namespaced name more than once
C2_Witness ==
    /\ ExtractedFromTree
    /\ call.ret.val # <<>>
    /\ ~NoDuplicates(getAditoDependenciesRecursive(OutputTree))

\* C3 as stated: the returned names are in the first-seen order of the pre-order,
\* depth-first traversal of the tree.
C3_PreOrder ==
    ExtractedFromTree =>
        \A x, y \in Range(call.ret.val) :
            /\ x \in Range(NamespacedPreOrder(OutputTree))
            /\ (FirstIndex(call.ret.val, x) < FirstIndex(call.ret.val, y)
                  <=> FirstIndex(NamespacedPreOrder(OutputTree), x)
                        < FirstIndex(NamespacedPreOrder(OutputTree), y))

RECURSIVE SiblingsFirst(_)
RECURSIVE SubtreesInOrder(_, _, _)
\* the traversal that lists the namespaced keys of a node, in mapping order, before
\* it descends below any of them
SiblingsFirst(node) ==
    LET dependencies == GetProp(node, "dependencies")
        here == IF dependencies.t = "obj"
                THEN SelectSeq([i \in 1..Len(dependencies.o) |-> dependencies.o[i].k],
                               IsNamespaced)
                ELSE <<>>
    IN  here \o SubtreesInOrder(dependencies, here, Len(here))

SubtreesInOrder(dependencies, here, n) ==
    IF n = 0 THEN <<>>
    ELSE SubtreesInOrder(dependencies, here, n - 1)
         \o SiblingsFirst(GetProp(dependencies, here[n]))

\* C3 (amended): the returned names are in the first-seen order of the traversal
\* that, at each node, lists all namespaced keys of the node in mapping insertion
\* order and only then appends, for each of those keys in the same order, what
\* the same traversal finds below it.
C3_SiblingsFirst ==
    ExtractedFromTree =>
        /\ call.ret.err = "none"
        /\ call.ret.val = FirstSeen(SiblingsFirst(OutputTree))

\* a tree where a name below an earlier sibling comes after the later sibling
C3_Witness ==
    /\ ExtractedFromTree
    /\ Len(call.ret.val) = 3
    /\ call.ret.val # FirstSeen(NamespacedPreOrder(OutputTree))
    /\ Range(call.ret.val) = Range(NamespacedPreOrder(OutputTree))

\* C11: for every output that is no dependency tree (text that is not JSON, JSON
\* that is no object, an object without a dependencies node) parseAditoDependencies
\* returns the empty sequence and throws nothing.
C11_NoDependenciesNoException ==
    (call.fn = "parseAditoDependencies" /\ pOutput \in OtherOutputs) =>
        call.ret = Return(<<>>)

---------------------------------------------------------------------------
(* The functions that compute the wildcard rule, applied to a document in memory *)

InitSynth ==
    /\ pOutput \in SampleOutputs
    /\ doc \in TypedDocuments \cup UntypedDocuments
    /\ call = NoCall
    /\ runs = 0
    /\ template = NoFile
    /\ jsconfig = NoFile
    /\ console = <<>>
    /\ npm = "idle"

\* the dependencies of the project change: npm list prints another output
NpmList ==
    /\ call # NoCall
    /\ runs < MaxRuns
    /\ pOutput' \in SampleOutputs \ {pOutput}
    /\ UNCHANGED <<doc, call, runs, template, jsconfig, console, npm>>

GetExistingThirdPartyDependencies ==
    /\ runs < MaxRuns
    /\ call' = [fn |-> "getExistingThirdPartyDependencies", doc |-> doc, out |-> pOutput,
                ret |-> getExistingThirdPartyDependencies(doc)]
    /\ runs' = runs + 1
    /\ UNCHANGED <<pOutput, doc, template, jsconfig, console, npm>>

GetPathExtensionsToSet ==
    /\ runs < MaxRuns
    /\ call' = [fn |-> "getPathExtensionsToSet", doc |-> doc, out |-> pOutput,
                ret |-> getPathExtensionsToSet(doc, pOutput)]
    /\ runs' = runs + 1
    /\ UNCHANGED <<pOutput, doc, template, jsconfig, console, npm>>

TransformTemplate ==
    /\ runs < MaxRuns
    /\ \E r \in {transformTemplate(doc, pOutput)} :
         /\ doc' = r.obj
         /\ call' = [fn |-> "transformTemplate", doc |-> doc, out |-> pOutput,
                     ret |-> [err |-> r.err, val |-> r.val]]
    /\ runs' = runs + 1
    /\ UNCHANGED <<pOutput, template, jsconfig, console, npm>>

NextSynth ==
    \/ NpmList
    \/ GetExistingThirdPartyDependencies
    \/ GetPathExtensionsToSet
    \/ TransformTemplate

SpecSynth == InitSynth /\ [][NextSynth]_vars

---------------------------------------------------------------------------
(* The entry script writeJsConfig.ts, run after each npm install *)

Init ==
    /\ pOutput = <<>>
    /\ doc = Undefined
    /\ call = NoCall
    /\ runs = 0
    /\ template \in TemplateFiles
    /\ jsconfig = NoFile
    /\ console = <<>>
    /\ npm = "idle"

\* exec("npm list -j -l", callback)
Exec ==
    /\ npm = "idle"
    /\ runs < MaxRuns
    /\ npm' = "running"
    /\ UNCHANGED <<pOutput, doc, call, runs, template, jsconfig, console>>

\* what the call before this one was given and what it left
LastCall ==
    IF call = NoCall THEN NoCall
    ELSE [fn |-> call.fn, out |-> call.out, pError |-> call.pError,
          template |-> call.template, after |-> call.after, err |-> call.err,
          loaded |-> call.loaded]

\* the subprocess ends and exec calls back: createJsConfigFile(pStdOut, pError, pStdErr, ...)
NpmListClosed ==
    /\ npm = "running"
    /\ \E pStdOut \in SampleOutputs, result \in ExecResults :
         \E r \in {createJsConfigFile(pStdOut, result[1], result[2], template, jsconfig, console)} :
             /\ pOutput' = pStdOut
             /\ jsconfig' = r.jsconfig
             /\ console' = r.console
             /\ call' = [fn |-> "createJsConfigFile", out |-> pStdOut, pError |-> result[1],
                         pStdErr |-> result[2], template |-> template, prior |-> jsconfig,
                         after |-> r.jsconfig, logged |-> Len(r.console) - Len(console),
                         err |-> r.err, steps |-> r.steps, loaded |-> r.loaded,
                         last |-> LastCall]
             /\ doc' = IF r.document = Undefined THEN doc ELSE r.document
    /\ npm' = "idle"
    /\ runs' = runs + 1
    /\ UNCHANGED template

\* the user renames the generated jsconfig.json to jsconfig.template.json
UseOutputAsTemplate ==
    /\ npm = "idle"
    /\ jsconfig.exists
    /\ template' = jsconfig
    /\ jsconfig' = NoFile
    /\ UNCHANGED <<pOutput, doc, call, runs, console, npm>>

Next ==
    \/ Exec
    \/ NpmListClosed
    \/ UseOutputAsTemplate

Spec == Init /\ [][Next]_vars

---------------------------------------------------------------------------
(* Properties of the functions that compute the wildcard rule *)

\* the entries of compilerOptions.paths['*'], an absent compilerOptions, paths or
\* '*' counting as the empty list
WildcardRule(document) ==
    LET compilerOptions ==
            IF document.t = "obj" THEN GetProp(document, "compilerOptions") ELSE Undefined
        paths == IF compilerOptions.t = "obj" THEN GetProp(compilerOptions, "paths")
                 ELSE Undefined
        star == IF paths.t = "obj" THEN GetProp(paths, "*") ELSE Undefined
    IN  IF star.t = "arr" THEN star.a ELSE <<>>

AbsentOr(kind, v) == v.t \in {"undefined", kind}

\* the document has the type JsConfigJSON
IsJsConfigJSON(document) ==
    /\ document.t = "obj"
    /\ LET compilerOptions == GetProp(document, "compilerOptions") IN
         /\ AbsentOr("obj", compilerOptions)
         /\ compilerOptions.t = "obj" =>
              LET paths == GetProp(compilerOptions, "paths") IN
                /\ AbsentOr("obj", paths)
                /\ paths.t = "obj" =>
                     \A i \in 1..Len(paths.o) :
                        /\ paths.o[i].v.t = "arr"
                        /\ \A j \in 1..Len(paths.o[i].v.a) : paths.o[i].v.a[j].t = "str"

\* the path pattern written for a namespaced dependency
PatternOf(name) == Str("node_modules/" \o name \o "/process/*/process")

NamespacedNames == {name \in PackageNames : IsNamespaced(name)}

\* C4: for a document and a dependency output that parseAditoDependencies accepts,
\* getPathExtensionsToSet returns the entries of the wildcard rule that do not start
\* with '@aditosoftware', in their order, followed by one entry
\* 'node_modules/<name>/process/*/process' for each name parseAditoDependencies
\* returns, in extraction order, and nothing else.
C4_FilteredThenSynthesized ==
    (/\ call.fn = "getPathExtensionsToSet"
     /\ IsJsConfigJSON(call.doc)
     /\ parseAditoDependencies(call.out).err = "none") =>
        LET names == parseAditoDependencies(call.out).val IN
        /\ call.ret.err = "none"
        /\ call.ret.val =
              SelectSeq(WildcardRule(call.doc), LAMBDA e : ~IsNamespaced(e.s))
                  \o [i \in 1..Len(names) |-> PatternOf(names[i])]

\* a wildcard rule that loses an entry and keeps one, and two names to add
C4_Witness ==
    /\ call.fn = "getPathExtensionsToSet"
    /\ IsJsConfigJSON(call.doc)
    /\ call.ret.err = "none"
    /\ \E e \in Range(WildcardRule(call.doc)) : IsNamespaced(e.s)
    /\ \E e \in Range(WildcardRule(call.doc)) : e \in Range(call.ret.val)
    /\ Len(parseAditoDependencies(call.out).val) >= 2

\* the wildcard rule holds an entry of the form transformTemplate writes
HoldsSynthesized(document) ==
    \E name \in NamespacedNames : PatternOf(name) \in Range(WildcardRule(document))

\* C5: when transformTemplate is applied to a document whose wildcard rule holds
\* entries synthesized by an earlier run, the new wildcard rule has the path
\* pattern of an '@aditosoftware' name only if the name is in the current tree.
C5_StaleEntriesDiscarded ==
    (/\ call.fn = "transformTemplate"
     /\ call.out \in SampleTreeOutputs
     /\ call.ret.err = "none"
     /\ HoldsSynthesized(call.doc)) =>
        \A name \in NamespacedNames :
            PatternOf(name) \in Range(WildcardRule(doc))
                => name \in Range(PreOrderKeys(JSONparse(call.out).val))

\* C6: if the wildcard rule of the document has no duplicates, it has none after
\* transformTemplate.
C6_NoDuplicateIntroduced ==
    (/\ call.fn = "transformTemplate"
     /\ call.out \in SampleTreeOutputs
     /\ call.ret.err = "none"
     /\ NoDuplicates(WildcardRule(call.doc))) =>
        NoDuplicates(WildcardRule(doc))

\* the members of an object other than the one named `key`, in their order
OtherMembers(v, key) ==
    IF v.t = "obj" THEN SelectSeq(v.o, LAMBDA m : m.k # key) ELSE <<>>

\* the keys of an object after `key` has been assigned to it
KeysWith(v, key) ==
    IF v.t = "obj" /\ HasKey(v.o, key) THEN ObjectKeys(v) ELSE Append(ObjectKeys(v), key)

\* C13: the document transformTemplate returns is its argument, changed in place
\* in the value of compilerOptions.paths['*'] only (compilerOptions and paths made
\* as objects where the argument had none): every other top-level field, every
\* other field of compilerOptions and every other path rule is as it was, at the
\* place it had.
C13_OnlyWildcardRuleChanged ==
    (call.fn = "transformTemplate" /\ call.ret.err = "none") =>
        LET before == call.doc
            after == call.ret.val
            optionsBefore == GetProp(before, "compilerOptions")
            optionsAfter == GetProp(after, "compilerOptions")
            pathsBefore == GetProp(optionsBefore, "paths")
            pathsAfter == GetProp(optionsAfter, "paths")
        IN  /\ doc = after
            /\ OtherMembers(after, "compilerOptions") = OtherMembers(before, "compilerOptions")
            /\ OtherMembers(optionsAfter, "paths") = OtherMembers(optionsBefore, "paths")
            /\ OtherMembers(pathsAfter, "*") = OtherMembers(pathsBefore, "*")
            /\ ObjectKeys(after) = KeysWith(before, "compilerOptions")
            /\ ObjectKeys(optionsAfter) = KeysWith(optionsBefore, "paths")
            /\ ObjectKeys(pathsAfter) = KeysWith(pathsBefore, "*")
            /\ GetProp(pathsAfter, "*").t = "arr"

\* the wildcard rule of the built-in default document
DefaultWildcardRule ==
    <<Str("process/*/process"), Str("node_modules/*/process"),
      Str("node_modules/@aditosoftware/*/process")>>

\* transformTemplate has been applied to the built-in default document and an
\* output in which parseAditoDependencies finds no dependency
DefaultWithoutDependencies ==
    /\ call.fn = "transformTemplate"
    /\ call.doc = getDefaultConfigTemplate
    /\ parseAditoDependencies(call.out) = Return(<<>>)

\* C14: transformTemplate applied to the built-in default document and an output
\* with no '@aditosoftware' dependency returns a document equal to the default;
\* its wildcard rule is still the three entries of the default.
C14_DefaultUnchanged ==
    DefaultWithoutDependencies =>
        /\ call.ret = Return(getDefaultConfigTemplate)
        /\ doc = getDefaultConfigTemplate
        /\ WildcardRule(call.ret.val) = DefaultWildcardRule

\* the default document and the output '{}'
C14_Witness ==
    /\ DefaultWithoutDependencies
    /\ call.out = <<"{", "}">>
    /\ call.ret.err = "none"
    /\ Len(WildcardRule(doc)) = 3

\* a document with fields at each level next to the wildcard rule, and a rule that
\* transformTemplate has changed
C13_Witness ==
    /\ call.fn = "transformTemplate"
    /\ call.ret.err = "none"
    /\ OtherMembers(call.doc, "compilerOptions") # <<>>
    /\ Len(OtherMembers(GetProp(call.doc, "compilerOptions"), "paths")) = 2
    /\ OtherMembers(GetProp(GetProp(call.doc, "compilerOptions"), "paths"), "*") # <<>>
    /\ WildcardRule(doc) # WildcardRule(call.doc)
    /\ OtherMembers(doc, "compilerOptions") = OtherMembers(call.doc, "compilerOptions")

---------------------------------------------------------------------------
(* Properties of createJsConfigFile *)

Called == call.fn = "createJsConfigFile"

TemplateUsable(file) == file.exists /\ file.readable /\ JSONparse(file.text).err = "none"

\* C7: called with a process failure, createJsConfigFile writes no file, does not
\* load the template, logs one diagnostic and returns normally.
C7_FailureWritesNothing ==
    (Called /\ call.pError # Null) =>
        /\ call.err = "none"
        /\ call.steps = <<"console.log">>
        /\ call.logged = 1
        /\ call.after = call.prior
        /\ jsconfig = call.after \/ (template = call.after /\ jsconfig = NoFile)

\* a failed npm list after a run that had written jsconfig.json
C7_Witness ==
    /\ Called
    /\ call.pError # Null
    /\ call.prior.exists
    /\ call.template.exists

\* C8: getJsConfigJSON never throws; it returns the default template when the file
\* is absent, unreadable or not JSON, and the parsed value as it is otherwise.
C8_DefaultOrParsed ==
    (Called /\ call.pError = Null) =>
        /\ call.loaded.err = "none"
        /\ ~TemplateUsable(call.template) => call.loaded.val = getDefaultConfigTemplate
        /\ TemplateUsable(call.template) =>
              call.loaded.val = JSONparse(call.template.text).val

\* a template file that is there and readable but is not JSON
C8_Witness ==
    /\ Called
    /\ call.pError = Null
    /\ call.template.exists
    /\ call.template.readable
    /\ call.template.text # <<>>
    /\ ~TemplateUsable(call.template)
    /\ call.loaded.val = getDefaultConfigTemplate

\* C9: whatever the state of the template file, createJsConfigFile called with no
\* process failure and the output of a dependency tree returns normally and writes
\* jsconfig.json.
C9_TemplateNeverAborts ==
    (Called /\ call.pError = Null /\ call.out \in SampleTreeOutputs) =>
        /\ call.err = "none"
        /\ call.after.exists
        /\ "fs.writeFileSync" \in Range(call.steps)

\* lines 34 and 35 of transformTemplate do not throw on the document
TakesCompilerOptions(document) ==
    /\ document.t = "obj"
    /\ GetProp(document, "compilerOptions").t \in {"undefined", "null", "obj"}

SameInputsTwice ==
    /\ Called
    /\ call.last # NoCall
    /\ call.pError = Null
    /\ call.last.pError = Null
    /\ call.last.out = call.out
    /\ call.last.template = call.template

\* C12: two calls of createJsConfigFile in succession with no process failure, the
\* same dependency output and an unchanged template state write the same contents
\* to jsconfig.json (and fail alike if they fail), also when both start from the
\* built-in default: the second call loads the default as the first one did, not
\* the document the first one changed.
C12_SameInputsSameFile ==
    SameInputsTwice =>
        /\ call.err = call.last.err
        /\ call.loaded = call.last.loaded
        /\ call.err = "none" => (call.after.exists /\ call.after = call.last.after)

\* both calls start from the built-in default, the first one has added entries to
\* its document, and both have written
C12_Witness ==
    /\ SameInputsTwice
    /\ ~TemplateUsable(call.template)
    /\ call.err = "none"
    /\ call.loaded.val = getDefaultConfigTemplate
    /\ Len(WildcardRule(doc)) > Len(WildcardRule(getDefaultConfigTemplate))
    /\ call.after = call.last.after
    /\ call.after.exists

\* the calls of fs.writeFileSync among the steps of the call
Writes == SelectSeq(call.steps, LAMBDA step : step = "fs.writeFileSync")

\* jsconfig.json is the file `file`, unless the user has renamed it since
OutputFileIs(file) == jsconfig = file \/ (template = file /\ jsconfig = NoFile)

\* the one write comes last, after the load and the synthesis, and jsconfig.json
\* holds the serialized document whatever it held before
WrittenLast ==
    /\ call.steps = <<"getJsConfigJSON", "transformTemplate", "fs.writeFileSync">>
    /\ call.after = File(JSONstringify(doc, 4))
    /\ OutputFileIs(call.after)

WriteOnlyInCallback ==
    (jsconfig' # jsconfig /\ jsconfig'.exists) =>
        /\ npm = "running"
        /\ npm' = "idle"
        /\ call'.fn = "createJsConfigFile"
        /\ call'.pError = Null
        /\ call'.after = jsconfig'

=============================================================================
